---------------------------- MODULE Spec2Model ----------------------------
(***************************************************************************)
(* A model of the IDS/IPS agent (idsips.agent), its detectors              *)
(* (idsips.detectors) and the mini SIEM correlator (idsips.siem).          *)
(*                                                                         *)
(* Conventions                                                             *)
(*  - Time is counted in whole seconds.  time.time() and the ISO time      *)
(*    stamps of the log records are both the integer `clock`; the clock    *)
(*    never goes back, and one handler reads one clock value.              *)
(*  - A Python dict, and an object probed with hasattr/getattr, is a       *)
(*    function whose DOMAIN holds the keys (attributes) that are present.  *)
(*  - Python's None is the string None below; address and MAC values are   *)
(*    strings.                                                             *)
(*  - A text that the code inspects character by character (a DNS name,    *)
(*    an HTTP host or URI) is a sequence of one-character strings.         *)
(***************************************************************************)
EXTENDS Integers, Sequences, FiniteSets, TLC

VARIABLES
    cfg,          \* the loaded configuration (cli.load_cfg): rules, thresholds
    clock,        \* the wall clock, in seconds
    _WINDOW,      \* icmp._WINDOW: deque of <<timestamp, src>>
    _LAST_ALERT,  \* icmp._LAST_ALERT: dict src -> time of the last ICMP_RATE
    _TS,          \* arp._TS: deque of <<timestamp, ip, mac>>
    detections,   \* logs/detections.jsonl, one line per element
    ops,          \* logs/ops.jsonl
    alerts,       \* logs/alerts.jsonl
    STOP,         \* signals._STOP["flag"]
    mode,         \* which command runs: "pcap", "live", "dry_run", or "none"
    pc,           \* the command's position
    reader,       \* the packets the capture has still to yield
    pkt,          \* the packet the loop holds
    exc,          \* TRUE while an exception is propagating out of the command
    siem_runs,    \* how many times mini_siem.main has run
    seen          \* history: <<time, packet>> of the process_packet calls
                  \* (kept by the specifications whose claims speak of
                  \* past events; no code reads it)

vars == <<cfg, clock, _WINDOW, _LAST_ALERT, _TS, detections, ops, alerts,
          STOP, mode, pc, reader, pkt, exc, siem_runs, seen>>

-----------------------------------------------------------------------------
(* Bounds of the model *)

\* The clock starts at StartTime (time.time() is far from 0) and is followed
\* for MaxTime seconds.
StartTime == 100
MaxTime == 7
\* The longest window (deque) and the longest detection log that is followed.
MaxWindow == 3
MaxLog == 3
\* The longest history of process_packet calls that is kept.
MaxSeen == 3
\* The mini SIEM is run up to MaxRuns times, within MaxSiemTime seconds.
MaxRuns == 2
MaxSiemTime == 1
\* The detection logs given to the mini SIEM hold up to MaxExtra detections
\* more or fewer than the correlator's thresholds.
MaxExtra == 1
\* The longest pcap file that is read.
MaxPcap == 2
\* The seconds the ARP detector is followed for.
MaxArpTime == 3
\* The largest icmp_per_sec / arp_window_sec a configuration is given.
MaxThreshold == 1

None == "None"

\* A truthiness test that lets every value through.
Truthy_any(v) == TRUE

\* Python truthiness of an optional string: None and "" are falsy.
Truthy(v) == v \notin {None, ""}

\* getattr(obj, name, None) / dict.get(name)
Get(obj, name) == IF name \in DOMAIN obj THEN obj[name] ELSE None

\* str(x) if x else ""
StrOrEmpty(v) == IF Truthy(v) THEN v ELSE ""

-----------------------------------------------------------------------------
(* idsips/agent/logging.py *)

\* The detector state and the logs a detector call works on, as one value:
\* it is threaded through the detectors of one process_packet call.
\* raised = None while no exception is propagating; a KeyError is held as
\* the key that was missing (its str(e)).
DetState == [WINDOW |-> _WINDOW, LAST_ALERT |-> _LAST_ALERT, TS |-> _TS,
             detections |-> detections, raised |-> None]

\* A log file opened for writing ("w") instead of appending.
emit_event_rewrite(st, now, kwargs) ==
    LET base == [ts |-> now, schema_version |-> "1.0"]
    IN [st EXCEPT !.detections = <<kwargs @@ base>>]

\* emit_event: {**base, **kwargs} appended as one line.
emit_event(st, now, kwargs) ==
    LET base == [ts |-> now, schema_version |-> "1.0"]
    IN [st EXCEPT !.detections = Append(@, kwargs @@ base)]

\* emit_ops: one line appended to the ops log.
emit_ops(log, now, level, component, msg, kv) ==
    Append(log, [ts |-> now, level |-> level, component |-> component,
                 msg |-> msg, kv |-> kv])

-----------------------------------------------------------------------------
(* idsips/detectors/icmp.py *)

horizon == 1
cooldown == 5

\* An eviction that also drops the entry that is exactly h old.
RECURSIVE EvictOlder_early(_, _, _)
EvictOlder_early(dq, now, h) ==
    IF dq # <<>> /\ (now - dq[1][1]) >= h
    THEN EvictOlder_early(Tail(dq), now, h)
    ELSE dq

\* A window that is never evicted.
EvictOlder_keep(dq, now, h) == dq

\* while dq and (now - dq[0][0]) > h: dq.popleft()
RECURSIVE EvictOlder(_, _, _)
EvictOlder(dq, now, h) ==
    IF dq # <<>> /\ (now - dq[1][1]) > h
    THEN EvictOlder(Tail(dq), now, h)
    ELSE dq

\* A detector without the cooldown test.
InCooldown_never(now, last_alert) == FALSE

\* if (now - last_alert) < cooldown: return
InCooldown(now, last_alert) == (now - last_alert) < cooldown

\* A cooldown state that keeps the time of the first alert of a source.
RecordAlert_first(la, src, now) == la @@ (src :> now)

\* _LAST_ALERT[src] = now
RecordAlert(la, src, now) == (src :> now) @@ la

\* A count of the whole window, whatever the source.
CountSrc_all(w, src) == Len(w)

\* sum(1 for t, s in _WINDOW if s == src)
CountSrc(w, src) == Cardinality({i \in DOMAIN w : w[i][2] = src})

detect_icmp(c, p, src, dst, now, st) ==
    IF "icmp" \notin DOMAIN p THEN st
    ELSE
      LET w  == EvictOlder(Append(st.WINDOW, <<now, src>>), now, horizon)
          s1 == [st EXCEPT !.WINDOW = w]
      IN IF "icmp_per_sec" \notin DOMAIN c.thresholds
         THEN [s1 EXCEPT !.raised = "icmp_per_sec"]
         ELSE
           LET threshold == c.thresholds.icmp_per_sec
               count_src == CountSrc(w, src)
               last_alert == IF src \in DOMAIN st.LAST_ALERT
                             THEN st.LAST_ALERT[src] ELSE 0
           IN IF count_src > threshold
              THEN IF InCooldown(now, last_alert)
                   THEN s1
                   ELSE emit_event(
                          [s1 EXCEPT !.LAST_ALERT = RecordAlert(@, src, now)],
                          now,
                          [src |-> StrOrEmpty(src), dst |-> StrOrEmpty(dst),
                           proto |-> "ICMP", rule_id |-> "ICMP_RATE",
                           severity |-> "high",
                           summary |-> <<"ICMP echo rate", count_src, threshold>>,
                           metadata |-> [rate |-> count_src,
                                         threshold |-> threshold]])
              ELSE s1

-----------------------------------------------------------------------------
(* idsips/detectors/arp.py *)

\* The MAC addresses of the model, in the order Python compares strings.
MACS == <<"m1", "m2", "m3">>

\* The place of a MAC string in Python's string order.
MacRank(m) == CHOOSE i \in DOMAIN MACS : MACS[i] = m

\* A list of every MAC address, whatever the set holds.
sorted_known(S) == MACS

\* sorted(macs): a list, ascending.
RECURSIVE sorted(_)
sorted(S) ==
    IF S = {} THEN <<>>
    ELSE LET least == CHOOSE m \in S : \A o \in S : MacRank(m) <= MacRank(o)
         IN <<least>> \o sorted(S \ {least})

detect_arp(c, p, src, dst, now, st) ==
    IF "arp" \notin DOMAIN p THEN st
    ELSE
      LET layer == p.arp
          ip    == Get(layer, "spa")
          mac   == Get(layer, "sha")
      IN IF ~Truthy(ip) \/ ~Truthy(mac) THEN st
         ELSE IF "arp_window_sec" \notin DOMAIN c.thresholds
         THEN [st EXCEPT !.raised = "arp_window_sec"]
         ELSE
           LET window == c.thresholds.arp_window_sec
               ts     == EvictOlder(Append(st.TS, <<now, ip, mac>>), now, window)
               s1     == [st EXCEPT !.TS = ts]
               \* ip2macs[ip]
               macs   == {ts[i][3] : i \in {k \in DOMAIN ts : ts[k][2] = ip}}
           IN IF Cardinality(macs) >= 2
              THEN emit_event(s1, now,
                     [src |-> ip, dst |-> StrOrEmpty(dst),
                      proto |-> "ARP", rule_id |-> "ARP_MULTIMAC",
                      severity |-> "medium",
                      summary |-> <<"Multiple MACs observed for IP", ip, window>>,
                      metadata |-> [macs |-> sorted(macs), window |-> window]])
              ELSE s1

-----------------------------------------------------------------------------
(* idsips/detectors/dns.py *)

\* getattr(obj, name, None) or "" for a text: absent and empty are both falsy.
GetText(obj, name) == IF name \in DOMAIN obj THEN obj[name] ELSE <<>>

\* round(log2(k) * 10^6) for k = 1 .. 24
Log2Micro ==
    <<0, 1000000, 1584963, 2000000, 2321928, 2584963, 2807355, 3000000,
      3169925, 3321928, 3459432, 3584963, 3700440, 3807355, 3906891, 4000000,
      4087463, 4169925, 4247928, 4321928, 4392317, 4459432, 4523562, 4584963>>

RECURSIVE SumOver(_, _)
SumOver(S, f) ==
    IF S = {} THEN 0
    ELSE LET x == CHOOSE y \in S : TRUE IN f[x] + SumOver(S \ {x}, f)

\* An entropy taken over the first label only.
_entropy_first_label(s) ==
    LET dots  == {i \in DOMAIN s : s[i] = "."}
        stop  == IF dots = {} THEN Len(s) + 1
                 ELSE CHOOSE i \in dots : \A k \in dots : i <= k
        label == SubSeq(s, 1, stop - 1)
        n     == Len(label)
        chars == {label[i] : i \in DOMAIN label}
        cnt   == [ch \in chars |-> Cardinality({i \in DOMAIN label : label[i] = ch})]
        part  == [ch \in chars |-> cnt[ch] * Log2Micro[cnt[ch]]]
    IN IF n = 0 THEN 0 ELSE (n * Log2Micro[n] - SumOver(chars, part)) \div n

\* _entropy(s), in millionths of a bit:
\* -sum(cnt/n * log2(cnt/n)) = (n*log2(n) - sum(cnt*log2(cnt))) / n
_entropy(s) ==
    IF s = <<>> THEN 0
    ELSE
      LET n     == Len(s)
          chars == {s[i] : i \in DOMAIN s}
          cnt   == [ch \in chars |-> Cardinality({i \in DOMAIN s : s[i] = ch})]
          part  == [ch \in chars |-> cnt[ch] * Log2Micro[cnt[ch]]]
      IN (n * Log2Micro[n] - SumOver(chars, part)) \div n

\* [len(l) for l in name.split(".") if l]: cur is the length of the label
\* being read.
RECURSIVE LabelLens(_, _)
LabelLens(s, cur) ==
    IF s = <<>> THEN (IF cur > 0 THEN <<cur>> ELSE <<>>)
    ELSE IF Head(s) = "."
         THEN (IF cur > 0 THEN <<cur>> ELSE <<>>) \o LabelLens(Tail(s), 0)
         ELSE LabelLens(Tail(s), cur + 1)

\* round(ent, 2), in hundredths
Round2(micro) == (micro + 5000) \div 10000

detect_dns(c, p, src, dst, now, st) ==
    IF "dns" \notin DOMAIN p THEN st
    ELSE
      LET dns  == p.dns
          name == IF GetText(dns, "qry_name") # <<>>
                  THEN GetText(dns, "qry_name")
                  ELSE GetText(dns, "qry_name_raw")
      IN IF name = <<>> THEN st
         ELSE IF "dns_label_max" \notin DOMAIN c.thresholds
         THEN [st EXCEPT !.raised = "dns_label_max"]
         ELSE IF "dns_name_max" \notin DOMAIN c.thresholds
         THEN [st EXCEPT !.raised = "dns_name_max"]
         ELSE IF "dns_entropy_threshold" \notin DOMAIN c.thresholds
         THEN [st EXCEPT !.raised = "dns_entropy_threshold"]
         ELSE
           LET label_max == c.thresholds.dns_label_max
               name_max  == c.thresholds.dns_name_max
               lens      == LabelLens(name, 0)
               long_label == \E i \in DOMAIN lens : lens[i] > label_max
               too_long   == Len(name) > name_max
               ent        == _entropy(name)
               \* the threshold is held in millionths of a bit as well
               ENTROPY_THRESHOLD == c.thresholds.dns_entropy_threshold
               high_entropy == ent >= ENTROPY_THRESHOLD
           IN IF long_label \/ too_long \/ high_entropy
              THEN emit_event(st, now,
                     [src |-> StrOrEmpty(src), dst |-> StrOrEmpty(dst),
                      proto |-> "DNS", rule_id |-> "DNS_SUSPICIOUS",
                      severity |-> "medium",
                      summary |-> <<"Suspicious DNS query name">>,
                      metadata |-> [name |-> name, long_label |-> long_label,
                                    too_long |-> too_long,
                                    entropy |-> Round2(ent)]])
              ELSE st

-----------------------------------------------------------------------------
(* idsips/detectors/http.py *)

KEYWORDS == << <<"a","d","m","i","n">>,
               <<"p","a","s","s","w","o","r","d">>,
               <<"l","o","g","i","n">> >>

UPPER == <<"A","B","C","D","E","F","G","H","I","J","K","L","M",
           "N","O","P","Q","R","S","T","U","V","W","X","Y","Z">>
LOWER == <<"a","b","c","d","e","f","g","h","i","j","k","l","m",
           "n","o","p","q","r","s","t","u","v","w","x","y","z">>

\* str.lower()
lower(s) ==
    [i \in DOMAIN s |->
        IF \E k \in DOMAIN UPPER : UPPER[k] = s[i]
        THEN LOWER[CHOOSE k \in DOMAIN UPPER : UPPER[k] = s[i]]
        ELSE s[i]]

\* k in s
Contains(s, k) ==
    \E i \in 1..(Len(s) - Len(k) + 1) : SubSeq(s, i, i + Len(k) - 1) = k

detect_http(c, p, src, dst, now, st) ==
    IF "http" \notin DOMAIN p THEN st
    ELSE
      LET uri  == IF GetText(p.http, "request_full_uri") # <<>>
                  THEN GetText(p.http, "request_full_uri")
                  ELSE GetText(p.http, "request_uri")
          host == GetText(p.http, "host")
          s    == lower(host \o uri)
      IN IF \E k \in DOMAIN KEYWORDS : Contains(s, KEYWORDS[k])
         THEN emit_event(st, now,
                [src |-> StrOrEmpty(src), dst |-> StrOrEmpty(dst),
                 proto |-> "HTTP", rule_id |-> "HTTP_KEYWORD",
                 severity |-> "low",
                 summary |-> <<"HTTP keyword match">>,
                 metadata |-> [host |-> host, uri |-> uri]])
         ELSE st

-----------------------------------------------------------------------------
(* idsips/agent/cli.py: process_packet *)

\* cfg["rules"].get(rule) is truthy
RuleOn(c, rule) == rule \in DOMAIN c.rules /\ c.rules[rule]

\* The src and dst that process_packet hands to the detectors.
Normalize(p) ==
    IF "ip" \in DOMAIN p
    THEN [src |-> Get(p.ip, "src"), dst |-> Get(p.ip, "dst")]
    ELSE IF "arp" \in DOMAIN p
    THEN [src |-> Get(p.arp, "spa"), dst |-> Get(p.arp, "tpa")]
    ELSE IF "icmp" \in DOMAIN p
    THEN [src |-> Get(p.icmp, "src"), dst |-> Get(p.icmp, "dst")]
    ELSE IF "dns" \in DOMAIN p
    THEN [src |-> Get(p.dns, "src"), dst |-> Get(p.dns, "dst")]
    ELSE IF "http" \in DOMAIN p
    THEN [src |-> Get(p.http, "src"), dst |-> Get(p.http, "dst")]
    ELSE [src |-> None, dst |-> None]

\* The detector routing inside the try block: the detectors run in the
\* order dns, icmp, arp, http, and the first exception ends the block.
RunDetectors(c, p, now, st) ==
    LET n  == Normalize(p)
        s1 == IF RuleOn(c, "dns_suspicious")
              THEN detect_dns(c, p, n.src, n.dst, now, st) ELSE st
        s2 == IF s1.raised # None THEN s1
              ELSE IF RuleOn(c, "icmp_flood")
              THEN detect_icmp(c, p, n.src, n.dst, now, s1) ELSE s1
        s3 == IF s2.raised # None THEN s2
              ELSE IF RuleOn(c, "arp_spoof")
              THEN detect_arp(c, p, n.src, n.dst, now, s2) ELSE s2
        s4 == IF s3.raised # None THEN s3
              ELSE IF RuleOn(c, "http_keyword")
              THEN detect_http(c, p, n.src, n.dst, now, s3) ELSE s3
    IN s4

\* process_packet(cfg, pkt): the detectors, then the except clause, which
\* reports the exception to the ops log and returns normally.
process_packet(p) ==
    LET st == RunDetectors(cfg, p, clock, DetState)
    IN /\ _WINDOW' = st.WINDOW
       /\ _LAST_ALERT' = st.LAST_ALERT
       /\ _TS' = st.TS
       /\ detections' = st.detections
       /\ ops' = IF st.raised # None
                 THEN emit_ops(ops, clock, "ERROR", "decoder", "packet_error",
                               [error |-> st.raised])
                 ELSE ops

\* Time passes.
TickUpTo(limit) ==
    /\ clock < StartTime + limit
    /\ clock' = clock + 1
    /\ UNCHANGED <<cfg, _WINDOW, _LAST_ALERT, _TS, detections, ops, alerts,
                   STOP, mode, pc, reader, pkt, exc, siem_runs, seen>>

-----------------------------------------------------------------------------
(* The detectors driven directly: every step hands one packet to            *)
(* process_packet, or lets a second pass.                                   *)

NoPkt == <<>>

\* The parts of the state the agent's commands and the SIEM own.
IdleRest ==
    /\ ops = <<>>
    /\ alerts = <<>>
    /\ STOP = FALSE
    /\ mode = "none"
    /\ pc = "none"
    /\ reader = <<>>
    /\ pkt = NoPkt
    /\ exc = FALSE
    /\ siem_runs = 0
    /\ seen = <<>>

FreshDetectors ==
    /\ _WINDOW = <<>>
    /\ _LAST_ALERT = <<>>
    /\ _TS = <<>>
    /\ detections = <<>>

\* The windows and the detection log stay within the bounds of the model.
WithinBounds ==
    /\ Len(_WINDOW') <= MaxWindow
    /\ Len(_TS') <= MaxWindow
    /\ Len(detections') <= MaxLog

\* One packet handed to process_packet.
Deliver(p) ==
    /\ process_packet(p)
    /\ WithinBounds
    /\ UNCHANGED <<cfg, clock, alerts, STOP, mode, pc, reader, pkt, exc,
                   siem_runs, seen>>

\* The same, with the call recorded in the history.
Observe(p) ==
    /\ Len(seen) < MaxSeen
    /\ process_packet(p)
    /\ WithinBounds
    /\ seen' = Append(seen, <<clock, p>>)
    /\ UNCHANGED <<cfg, clock, alerts, STOP, mode, pc, reader, pkt, exc,
                   siem_runs>>

Tick == TickUpTo(MaxTime)

\* ICMP packets: over IP from a host, and one with no source address
\* (no ip layer, no icmp.src attribute).
IcmpHosts == {"A"}

IcmpPackets ==
    {[ip |-> [src |-> s, dst |-> "D"], icmp |-> <<>>] : s \in IcmpHosts}
    \cup {[icmp |-> <<>>]}

InitIcmp ==
    /\ cfg \in {[rules |-> [icmp_flood |-> TRUE],
                 thresholds |-> [icmp_per_sec |-> t]] : t \in 1..MaxThreshold}
    /\ clock = StartTime
    /\ FreshDetectors
    /\ IdleRest

IcmpEvent == \E p \in IcmpPackets : Deliver(p)

NextIcmp == Tick \/ IcmpEvent

SpecIcmp == InitIcmp /\ [][NextIcmp]_vars

-----------------------------------------------------------------------------
(* Claims about the ICMP rate detector (SpecIcmp) *)

\* The source keys of the ICMP window: the packets' normalised src.
IcmpSrcs == {Normalize(p).src : p \in IcmpPackets}

IsIcmpRate(d, src) == d.rule_id = "ICMP_RATE" /\ d.src = StrOrEmpty(src)

\* The time of the latest window entry of src.
LastSeen(w, src) ==
    LET I == {i \in DOMAIN w : w[i][2] = src}
    IN w[CHOOSE i \in I : \A k \in I : k <= i][1]

\* C1: an over-threshold burst of one source yields exactly one ICMP_RATE
\* detection per cooldown: whenever the window holds more than icmp_per_sec
\* entries of a source, an ICMP_RATE detection of that source was emitted
\* less than 5 seconds before (or at) the latest of them, and any two
\* ICMP_RATE detections of one source are at least 5 seconds apart (so a
\* burst 3 seconds after a detection adds none, one 6 seconds after adds
\* exactly one).
C1_OnePerCooldown ==
    /\ \A src \in IcmpSrcs :
         CountSrc(_WINDOW, src) > cfg.thresholds.icmp_per_sec
         => \E i \in DOMAIN detections :
               /\ IsIcmpRate(detections[i], src)
               /\ detections[i].ts <= LastSeen(_WINDOW, src)
               /\ LastSeen(_WINDOW, src) - detections[i].ts < cooldown
    /\ \A src \in IcmpSrcs : \A i, j \in DOMAIN detections :
         (i < j /\ IsIcmpRate(detections[i], src)
                /\ IsIcmpRate(detections[j], src))
         => detections[j].ts - detections[i].ts >= cooldown

\* Witness of C1: a source with two detections exactly 6 seconds apart whose
\* second burst went on past the threshold (the extra event was suppressed).
C1_Witness ==
    \E src \in IcmpHosts : \E i, j \in DOMAIN detections :
        /\ IsIcmpRate(detections[i], src) /\ IsIcmpRate(detections[j], src)
        /\ detections[j].ts - detections[i].ts = cooldown + 1
        /\ Cardinality({k \in DOMAIN detections :
                          IsIcmpRate(detections[k], src)}) = 2
        /\ CountSrc(_WINDOW, src) > cfg.thresholds.icmp_per_sec + 1

\* C10: an ICMP event whose source address is absent is skipped silently:
\* no ICMP_RATE detection is ever emitted for the absent source (its
\* detections would carry src = ""), and no error is reported.
C10_NoSourceSkipped ==
    /\ \A i \in DOMAIN detections : ~IsIcmpRate(detections[i], None)
    /\ \A i \in DOMAIN ops : ops[i].level # "ERROR"

-----------------------------------------------------------------------------
(* The ARP detector driven directly (SpecArp) *)

ArpHosts == {"A", "B"}

\* ARP packets: sender protocol address spa, sender hardware address sha.
ArpPackets ==
    {[arp |-> [spa |-> ip, sha |-> MACS[m], tpa |-> "T"]] :
        ip \in ArpHosts, m \in DOMAIN MACS}

InitArp ==
    /\ cfg \in {[rules |-> [arp_spoof |-> TRUE],
                 thresholds |-> [arp_window_sec |-> w]] : w \in 1..MaxThreshold}
    /\ clock = StartTime
    /\ FreshDetectors
    /\ IdleRest

ArpEvent == \E p \in ArpPackets : Observe(p)

ArpTick == TickUpTo(MaxArpTime)

NextArp == ArpTick \/ ArpEvent

SpecArp == InitArp /\ [][NextArp]_vars

\* A list of MACs in ascending string order, without repeats.
IsAscending(l) ==
    \A a, b \in DOMAIN l : a < b => MacRank(l[a]) < MacRank(l[b])

Elems(l) == {l[i] : i \in DOMAIN l}

\* C2: two ARP events of one IP with different sender MACs, at most
\* arp_window_sec apart, have produced by the call for the second of them
\* an ARP_MULTIMAC detection for that IP whose metadata.macs is ascending
\* and holds both MACs, whatever other ARP events came in between.
C2_MultiMacDetected ==
    \A i, j \in DOMAIN seen :
       LET a == seen[i][2].arp
           b == seen[j][2].arp
       IN (/\ i < j
           /\ a.spa = b.spa
           /\ a.sha # b.sha
           /\ seen[j][1] - seen[i][1] <= cfg.thresholds.arp_window_sec)
          => \E k \in DOMAIN detections :
                LET d == detections[k]
                IN /\ d.rule_id = "ARP_MULTIMAC"
                   /\ d.src = a.spa
                   /\ d.ts <= seen[j][1]
                   /\ {a.sha, b.sha} \subseteq Elems(d.metadata.macs)
                   /\ IsAscending(d.metadata.macs)

\* Witness of C2: an IP seen with one MAC, then an event of the other IP,
\* then the first IP with a second MAC exactly arp_window_sec later, and a
\* detection listing both MACs.
C2_Witness ==
    /\ Len(seen) = 3
    /\ seen[1][2].arp.spa = seen[3][2].arp.spa
    /\ seen[2][2].arp.spa # seen[1][2].arp.spa
    /\ MacRank(seen[1][2].arp.sha) > MacRank(seen[3][2].arp.sha)
    /\ seen[3][1] - seen[1][1] = cfg.thresholds.arp_window_sec
    /\ \E k \in DOMAIN detections :
          /\ detections[k].rule_id = "ARP_MULTIMAC"
          /\ detections[k].metadata.macs
               = <<seen[3][2].arp.sha, seen[1][2].arp.sha>>

-----------------------------------------------------------------------------
(* The ARP detector given incomplete ARP packets as well (SpecArpGaps) *)

\* ARP packets of one IP with two MACs, and ARP packets whose sender IP or
\* sender MAC is absent or empty.
ArpGapPackets ==
    { [arp |-> [spa |-> "A", sha |-> "m1", tpa |-> "T"]],
      [arp |-> [spa |-> "A", sha |-> "m2", tpa |-> "T"]],
      [arp |-> [sha |-> "m2", tpa |-> "T"]],
      [arp |-> [spa |-> "A", tpa |-> "T"]],
      [arp |-> [spa |-> "", sha |-> "m2", tpa |-> "T"]] }

ArpGapEvent == \E p \in ArpGapPackets : Observe(p)

NextArpGaps == ArpTick \/ ArpGapEvent

SpecArpGaps == InitArp /\ [][NextArpGaps]_vars

\* The ARP packet lacks its sender IP or its sender MAC.
ArpIncomplete(p) ==
    /\ "arp" \in DOMAIN p
    /\ (Get(p.arp, "spa") \in {None, ""} \/ Get(p.arp, "sha") \in {None, ""})

\* C11: an ARP event whose sender IP or sender MAC is missing leaves the ARP
\* window as it was (nothing appended, nothing evicted) and emits no
\* detection, whatever the window holds.
C11_IncompleteArpIgnored ==
    [][ (Len(seen') = Len(seen) + 1 /\ ArpIncomplete(seen'[Len(seen')][2]))
          => (_TS' = _TS /\ detections' = detections /\ ops' = ops) ]_vars

\* Witness of C11: the last event was an incomplete ARP packet, and the
\* window still holds, untouched, the two entries of the events before it,
\* the first of which had by then become older than the window.
C11_Witness ==
    /\ Len(seen) = 3
    /\ ArpIncomplete(seen[3][2])
    /\ ~ArpIncomplete(seen[1][2]) /\ ~ArpIncomplete(seen[2][2])
    /\ Len(_TS) = 2
    /\ seen[3][1] - _TS[1][1] > cfg.thresholds.arp_window_sec
    /\ detections = <<>>

-----------------------------------------------------------------------------
(* idsips/agent/cli.py: cmd_pcap and cmd_live (Spec)                        *)
(*                                                                          *)
(* pc: "start" (configuration loaded) -> "enter" (entering the with block)  *)
(* -> "fetch" (asking the capture for the next packet) -> "check" (the      *)
(* stop-flag test) -> "process" (process_packet) -> "fetch" ...;            *)
(* "idle" is the dry-run loop; "finally" the finally clause; "done" the     *)
(* return of 0 and "raised" an exception leaving the command.               *)

\* "x7q9z2f8.evil-cdn.net"
RandomName == <<"x","7","q","9","z","2","f","8",".","e","v","i","l","-",
                "c","d","n",".","n","e","t">>

\* The packets of the agent's runs: an ICMP error that quotes a DNS query
\* (layers ip, icmp, dns), an ICMP echo, an ARP reply and an HTTP request.
AgentPackets ==
    { [ip |-> [src |-> "A", dst |-> "D"], icmp |-> <<>>,
       dns |-> [qry_name |-> RandomName]],
      [ip |-> [src |-> "A", dst |-> "D"], icmp |-> <<>>],
      [arp |-> [spa |-> "A", sha |-> "m1", tpa |-> "T"]],
      [ip |-> [src |-> "B", dst |-> "D"],
       http |-> [host |-> <<"h">>, request_uri |-> <<"/","L","o","g","i","n">>]] }

AllRules == [dns_suspicious |-> TRUE, icmp_flood |-> TRUE,
             arp_spoof |-> TRUE, http_keyword |-> TRUE]

\* label max 20, name max 50, entropy threshold 3.5 bits
AllThresholds == [arp_window_sec |-> 1, icmp_per_sec |-> 1,
                  dns_label_max |-> 20, dns_name_max |-> 50,
                  dns_entropy_threshold |-> 3500000]

Without(f, k) == [x \in DOMAIN f \ {k} |-> f[x]]

\* load_cfg returns what the YAML file holds: a threshold may be missing.
AgentCfgs ==
    { [rules |-> AllRules, thresholds |-> AllThresholds],
      [rules |-> AllRules, thresholds |-> Without(AllThresholds, "dns_label_max")],
      [rules |-> AllRules, thresholds |-> Without(AllThresholds, "icmp_per_sec")] }

\* The pcap files: up to MaxPcap packets.
RECURSIVE SeqsUpTo(_, _)
SeqsUpTo(S, n) ==
    IF n = 0 THEN {<<>>}
    ELSE SeqsUpTo(S, n - 1)
         \cup {Append(q, x) : q \in {r \in SeqsUpTo(S, n - 1) : Len(r) = n - 1},
                              x \in S}

Init ==
    /\ cfg \in AgentCfgs
    /\ clock = StartTime
    /\ FreshDetectors
    /\ ops = <<>>
    /\ alerts = <<>>
    /\ STOP = FALSE
    /\ mode \in {"pcap", "live", "dry_run"}
    /\ pc = "start"
    /\ reader \in (IF mode = "pcap" THEN SeqsUpTo(AgentPackets, MaxPcap)
                   ELSE {<<>>})
    /\ pkt = NoPkt
    /\ exc = FALSE
    /\ siem_runs = 0
    /\ seen = <<>>

DetVars == <<_WINDOW, _LAST_ALERT, _TS, detections>>

\* signals._handler: SIGINT sets the flag, at any point of the run.
Sigint ==
    /\ pc \notin {"done", "raised"}
    /\ ~STOP
    /\ STOP' = TRUE
    /\ UNCHANGED <<cfg, clock, DetVars, ops, alerts, mode, pc, reader, pkt,
                   exc, siem_runs, seen>>

\* emit_ops(cfg, "INFO", "runner", "start_pcap" / "start_live", ...)
CmdStart ==
    /\ pc = "start"
    /\ ops' = emit_ops(ops, clock, "INFO", "runner",
                       IF mode = "pcap" THEN "start_pcap" ELSE "start_live",
                       [dry_run |-> (mode = "dry_run")])
    /\ pc' = IF mode = "dry_run" THEN "idle" ELSE "enter"
    /\ UNCHANGED <<cfg, clock, DetVars, alerts, STOP, mode, reader, pkt, exc,
                   siem_runs, seen>>

\* with cap.FileAdapter(...) / cap.LiveAdapter(...) as reader
EnterOk ==
    /\ pc = "enter"
    /\ pc' = "fetch"
    /\ UNCHANGED <<cfg, clock, DetVars, ops, alerts, STOP, mode, reader, pkt,
                   exc, siem_runs, seen>>

\* The capture raises (no such file, tshark fails) on entry or while it is
\* asked for a packet: the exception leaves the try block.
ReaderFault ==
    /\ pc \in {"enter", "fetch"}
    /\ pc' = "finally"
    /\ exc' = TRUE
    /\ UNCHANGED <<cfg, clock, DetVars, ops, alerts, STOP, mode, reader, pkt,
                   siem_runs, seen>>

\* for pkt in reader.stream(), FileAdapter: the next packet of the file, or
\* the end of the loop at the end of the file.
FetchFile ==
    /\ pc = "fetch" /\ mode = "pcap"
    /\ IF reader = <<>>
       THEN pc' = "finally" /\ UNCHANGED <<reader, pkt>>
       ELSE pc' = "check" /\ pkt' = Head(reader) /\ reader' = Tail(reader)
    /\ UNCHANGED <<cfg, clock, DetVars, ops, alerts, STOP, mode, exc,
                   siem_runs, seen>>

\* for pkt in reader.stream(), LiveAdapter: sniff_continuously() yields when
\* a packet arrives on the interface; until then the loop waits in it.
PacketArrives ==
    /\ pc = "fetch" /\ mode = "live"
    /\ Len(seen) < MaxSeen
    /\ \E p \in AgentPackets : pkt' = p
    /\ pc' = "check"
    /\ UNCHANGED <<cfg, clock, DetVars, ops, alerts, STOP, mode, reader, exc,
                   siem_runs, seen>>

\* The live capture ends (the capture process exits): the generator stops.
CaptureEnds ==
    /\ pc = "fetch" /\ mode = "live"
    /\ pc' = "finally"
    /\ UNCHANGED <<cfg, clock, DetVars, ops, alerts, STOP, mode, reader, pkt,
                   exc, siem_runs, seen>>

\* A loop that does not look at the stop flag.
Check_ignore ==
    /\ pc = "check"
    /\ pc' = "process"
    /\ UNCHANGED <<cfg, clock, DetVars, ops, alerts, STOP, mode, reader, pkt,
                   exc, siem_runs, seen>>

\* if STOP["flag"]: break
Check ==
    /\ pc = "check"
    /\ pc' = IF STOP THEN "finally" ELSE "process"
    /\ UNCHANGED <<cfg, clock, DetVars, ops, alerts, STOP, mode, reader, pkt,
                   exc, siem_runs, seen>>

\* process_packet(cfg, pkt)
Process ==
    /\ pc = "process"
    /\ process_packet(pkt)
    /\ seen' = Append(seen, <<clock, pkt>>)
    /\ pc' = "fetch"
    /\ UNCHANGED <<cfg, clock, alerts, STOP, mode, reader, pkt, exc,
                   siem_runs>>

\* while not STOP["flag"]: time.sleep(0.2)
IdleTick ==
    /\ pc = "idle"
    /\ pc' = IF STOP THEN "finally" ELSE "idle"
    /\ UNCHANGED <<cfg, clock, DetVars, ops, alerts, STOP, mode, reader, pkt,
                   exc, siem_runs, seen>>

\* A shutdown record written only when the loop ended without an exception.
Finally_unless_raised ==
    /\ pc = "finally"
    /\ ops' = IF exc THEN ops
              ELSE emit_ops(ops, clock, "INFO", "runner", "shutdown",
                            [reason |-> "EOF_or_SIGINT"])
    /\ pc' = IF exc THEN "raised" ELSE "done"
    /\ UNCHANGED <<cfg, clock, DetVars, alerts, STOP, mode, reader, pkt, exc,
                   siem_runs, seen>>

\* finally: emit_ops(cfg, "INFO", "runner", "shutdown", {"reason": ...});
\* then return 0, or the exception goes on.
Finally ==
    /\ pc = "finally"
    /\ ops' = emit_ops(ops, clock, "INFO", "runner", "shutdown",
                       [reason |-> IF mode = "pcap" THEN "EOF_or_SIGINT"
                                   ELSE IF STOP THEN "SIGINT" ELSE "normal"])
    /\ pc' = IF exc THEN "raised" ELSE "done"
    /\ UNCHANGED <<cfg, clock, DetVars, alerts, STOP, mode, reader, pkt, exc,
                   siem_runs, seen>>

\* The steps the command takes by itself.
ProgramStep ==
    \/ CmdStart
    \/ EnterOk
    \/ FetchFile
    \/ Check
    \/ Process
    \/ IdleTick
    \/ Finally

\* The steps of the environment: the signal, the network, the capture.
EnvStep ==
    \/ Sigint
    \/ PacketArrives
    \/ CaptureEnds
    \/ ReaderFault

Next == ProgramStep \/ EnvStep

Spec == Init /\ [][Next]_vars

Terminated == pc \in {"done", "raised"}

-----------------------------------------------------------------------------
(* Claims about process_packet and the command loops (Spec) *)

\* A step of the loop that handed the held packet to process_packet.
ProcessedStep == pc = "process" /\ pc' = "fetch"

\* What shows, in one step, that a detector was run on packet p: the ICMP
\* detector appends to its window at every ICMP packet, the ARP detector at
\* every ARP packet that has both sender addresses, and the HTTP detector
\* (the last one called) emits at a keyword match.
IcmpEvaluated(p) == "icmp" \in DOMAIN p => _WINDOW' # _WINDOW

ArpEvaluated(p) ==
    ("arp" \in DOMAIN p /\ Truthy(Get(p.arp, "spa")) /\ Truthy(Get(p.arp, "sha")))
    => _TS' # _TS

HttpEvaluated(p) ==
    ("http" \in DOMAIN p /\ detect_http(cfg, p, None, None, clock, DetState) # DetState)
    => /\ Len(detections') > Len(detections)
       /\ detections'[Len(detections')].rule_id = "HTTP_KEYWORD"

EvaluatedByAllEnabled(p) ==
    /\ RuleOn(cfg, "icmp_flood") => IcmpEvaluated(p)
    /\ RuleOn(cfg, "arp_spoof") => ArpEvaluated(p)
    /\ RuleOn(cfg, "http_keyword") => HttpEvaluated(p)

ErrorReported ==
    /\ Len(ops') = Len(ops) + 1
    /\ ops'[Len(ops')].level = "ERROR"

\* C3: when a detector raises on an event, the other enabled detectors are
\* still evaluated on that event, the failure is written to the ops log as
\* an error and the loop goes on (so later events are evaluated too): every
\* process_packet call runs every enabled detector, and a call in which a
\* detector raised appends an ERROR record and returns to the loop.
C3_FaultIsolated ==
    [][ProcessedStep =>
          /\ EvaluatedByAllEnabled(pkt)
          /\ (RunDetectors(cfg, pkt, clock, DetState).raised # None
                => ErrorReported)]_vars

\* C7: the stop flag is tested once per event, before process_packet: an
\* event fetched when the flag is set is not processed, and an event in
\* process_packet when the flag is set is still evaluated by every enabled
\* detector.
C7_StopBetweenEvents ==
    [][/\ (pc = "check" /\ STOP) => pc' # "process"
       /\ (ProcessedStep /\ STOP) => EvaluatedByAllEnabled(pkt)]_vars

\* The part of C7 that is about the flag alone: process_packet is entered
\* only from the test, with the flag clear at the test, and once entered it
\* returns to the loop whatever the flag is.
StopTestedBeforeProcessing ==
    [][/\ (pc # "process" /\ pc' = "process") => (pc = "check" /\ ~STOP)
       /\ (pc = "process" /\ pc' # "process") => ProcessedStep]_vars

\* C8: once the stop flag is set the command ends without waiting for
\* another event: while it has not ended, it has a step of its own to take.
C8_StopTerminates == STOP => (Terminated \/ ENABLED ProgramStep)

Shutdowns == {i \in DOMAIN ops : ops[i].msg = "shutdown"}
Starts == {i \in DOMAIN ops : ops[i].msg \in {"start_pcap", "start_live"}}

\* C9: a run that wrote its start record and has ended (by end of input,
\* by the stop flag or by an exception) has written exactly one shutdown
\* record, as the last record of the ops log, after the start record; and
\* no shutdown record is written while the run can still process events.
C9_OneShutdown ==
    /\ Cardinality(Shutdowns) <= 1
    /\ Terminated <=> Cardinality(Shutdowns) = 1
    /\ Terminated => /\ Starts = {1}
                     /\ Shutdowns = {Len(ops)}

\* Witness of C9: an exception left the loop after an event was processed
\* and reported an error, and the shutdown record follows.
C9_Witness ==
    /\ pc = "raised"
    /\ Len(seen) >= 1
    /\ Len(ops) = 3
    /\ ops[2].level = "ERROR"
    /\ ops[3].msg = "shutdown"

-----------------------------------------------------------------------------
(* idsips/siem: ingest.py, alerts.py, mini_siem.py                          *)
(*                                                                          *)
(* A line of detections.jsonl that is a JSON object is the record of its    *)
(* fields.  A line that is not is a record with the one field `raw`:        *)
(* "blank" for an empty line, "garbage" for a text that json.loads rejects, *)
(* "scalar" for a JSON text that is no object (a number, a string, a list,  *)
(* null), which json.loads accepts.                                         *)
(* A `ts` that is missing or is no ISO time is an absent ts.                *)

\* A reader that also leaves out the records without a ts.
read_events_strict(lines) == SelectSeq(lines, LAMBDA l : "ts" \in DOMAIN l)

\* read_events: blank lines and lines json.loads rejects are left out.
read_events(lines) ==
    SelectSeq(lines, LAMBDA l : ~("raw" \in DOMAIN l /\ l.raw \in {"blank", "garbage"}))

\* emit_alert: one line appended to alerts.jsonl.
emit_alert(log, now, alert_id, severity, summary, entities, evidence_count) ==
    Append(log, [ts |-> now, alert_id |-> alert_id, severity |-> severity,
                 summary |-> summary, entities |-> entities,
                 evidence_count |-> evidence_count])

window == 60
burst_min == 30
repeat_min == 50

\* to_epoch(e.get("ts", "")): the time of the run when ts does not parse.
to_epoch(e, now) == IF "ts" \in DOMAIN e THEN e.ts ELSE now

\* e.get(field, "")
GetOrEmpty(e, field) == IF field \in DOMAIN e THEN e[field] ELSE ""

\* The keys of a defaultdict filled in one pass over the events, in the
\* order of insertion (the order in which dict.items() yields them): a key
\* stands where its first event stands.
KeysInOrder(events, field) ==
    LET first == { i \in DOMAIN events :
                     \A j \in 1..(i - 1) :
                        GetOrEmpty(events[j], field) # GetOrEmpty(events[i], field) }
        nth(n) == CHOOSE i \in first : Cardinality({ j \in first : j <= i }) = n
    IN [n \in 1..Cardinality(first) |-> GetOrEmpty(events[nth(n)], field)]

\* by_src[key] / by_rule[key]: the times of the events of one key, in the
\* order of the log.
TimesOf(events, field, key, now) ==
    LET mine == SelectSeq(events, LAMBDA e : GetOrEmpty(e, field) = key)
    IN [i \in DOMAIN mine |-> to_epoch(mine[i], now)]

\* A scan over the list as it was filled, unsorted.
SortTimes_none(times) == times

\* One more time put in its place in an ascending list, after the entries
\* that are not later than it.
InsertTime(sortedTimes, t) ==
    LET k == Cardinality({ i \in DOMAIN sortedTimes : sortedTimes[i] <= t })
    IN SubSeq(sortedTimes, 1, k) \o <<t>>
         \o SubSeq(sortedTimes, k + 1, Len(sortedTimes))

\* times.sort()
RECURSIVE SortTimes(_)
SortTimes(times) ==
    IF times = <<>> THEN <<>>
    ELSE InsertTime(SortTimes(SubSeq(times, 1, Len(times) - 1)),
                    times[Len(times)])

\* while times[j] - times[i] > window: i += 1      (indices from 1 here)
RECURSIVE AdvanceI(_, _, _)
AdvanceI(times, i, j) ==
    IF times[j] - times[i] > window THEN AdvanceI(times, i + 1, j) ELSE i

\* A scan that reports every time of the source once there are 30.
BurstScan_total(times, i, j) ==
    IF Len(times) >= burst_min THEN Len(times) ELSE 0

\* for j in range(len(times)): ... if (j - i + 1) >= 30: emit; break
\* The evidence count of the alert, or 0 when the loop ends without one.
RECURSIVE BurstScan(_, _, _)
BurstScan(times, i, j) ==
    IF j > Len(times) THEN 0
    ELSE LET i2 == AdvanceI(times, i, j)
         IN IF (j - i2 + 1) >= burst_min THEN j - i2 + 1
            ELSE BurstScan(times, i2, j + 1)

\* A repetition rule that wants more than 50.
RepeatedEnough_more(n) == n > repeat_min

\* if len(times) >= 50
RepeatedEnough(n) == n >= repeat_min

\* The first loop of correlate: the ICMP_FLOOD meta-alerts, source by source.
RECURSIVE FloodAlerts(_, _, _, _)
FloodAlerts(log, events, srcs, now) ==
    IF srcs = <<>> THEN log
    ELSE LET src   == Head(srcs)
             times == SortTimes(TimesOf(events, "src", src, now))
             n     == BurstScan(times, 1, 1)
         IN FloodAlerts(
              IF n > 0
              THEN emit_alert(log, now, "ALERT_ICMP_FLOOD", "high",
                              <<"High volume events from", src>>,
                              [src |-> src], n)
              ELSE log,
              events, Tail(srcs), now)

\* The second loop: the repeated-rule alerts, rule by rule.
RECURSIVE RepeatAlerts(_, _, _, _)
RepeatAlerts(log, events, rules, now) ==
    IF rules = <<>> THEN log
    ELSE LET r == Head(rules)
             n == Len(TimesOf(events, "rule_id", r, now))
         IN RepeatAlerts(
              IF RepeatedEnough(n)
              THEN emit_alert(log, now, "ALERT_REPEATED_RULE", "medium",
                              <<"Rule fired", r, n>>, [rule_id |-> r], n)
              ELSE log,
              events, Tail(rules), now)

\* correlate(cfg, events): the alert log after the call.
correlate(log, events, now) ==
    RepeatAlerts(FloodAlerts(log, events, KeysInOrder(events, "src"), now),
                 events, KeysInOrder(events, "rule_id"), now)

\* e.get("ts", "") in the loop that fills by_src and by_rule: an event that
\* is no dict has no get, and the AttributeError leaves correlate before
\* any alert is emitted.
correlate_raises(events) ==
    \E i \in DOMAIN events : "raw" \in DOMAIN events[i]

\* mini_siem.main: read the whole detection log, correlate, return 0; exc
\* tells whether the run ended by an exception instead.
SiemRun ==
    /\ siem_runs < MaxRuns
    /\ LET events == read_events(detections)
       IN IF correlate_raises(events)
          THEN alerts' = alerts /\ exc' = TRUE
          ELSE alerts' = correlate(alerts, events, clock) /\ exc' = FALSE
    /\ siem_runs' = siem_runs + 1
    /\ UNCHANGED <<cfg, clock, _WINDOW, _LAST_ALERT, _TS, detections, ops,
                   STOP, mode, pc, reader, pkt, seen>>

SiemTick == TickUpTo(MaxSiemTime)

-----------------------------------------------------------------------------
(* The mini SIEM run over a finished detection log.  The log is one of a    *)
(* family: nA detections of source A, `step` seconds apart, the last one    *)
(* `lag` seconds old; nB detections of the same rule from sources B and C;  *)
(* two detections of another rule from D; at most one detection of A whose  *)
(* ts does not parse; written in time order or against it; with or without  *)
(* a damaged and a blank line.                                              *)

Reverse(l) == [i \in DOMAIN l |-> l[Len(l) + 1 - i]]

BurstCounts == (burst_min - 1)..(burst_min + 1)
OtherCounts == (repeat_min - burst_min - MaxExtra)..(repeat_min - burst_min + MaxExtra)
Steps == {1, 2, 3}
Lags == {0, window - burst_min + 2}

SiemLog(nA, step, nB, k, lag, backwards, damaged) ==
    LET last  == StartTime - lag
        partA == [i \in 1..nA |-> [ts |-> last - step * (nA - i), src |-> "A",
                                   dst |-> "T", proto |-> "ICMP",
                                   rule_id |-> "ICMP_RATE", severity |-> "high"]]
        partB == [i \in 1..nB |-> [ts |-> last - i,
                                   src |-> IF i % 2 = 0 THEN "B" ELSE "C",
                                   dst |-> "T", proto |-> "ICMP",
                                   rule_id |-> "ICMP_RATE", severity |-> "high"]]
        partD == [i \in 1..2 |-> [ts |-> last - i, src |-> "D", dst |-> "T",
                                  proto |-> "DNS", rule_id |-> "DNS_SUSPICIOUS",
                                  severity |-> "medium"]]
        partK == [i \in 1..k |-> [src |-> "A", dst |-> "T", proto |-> "ICMP",
                                  rule_id |-> "ICMP_RATE", severity |-> "high"]]
        body  == partA \o partB \o partD \o partK
        lines == IF backwards THEN Reverse(body) ELSE body
    IN IF damaged THEN <<[raw |-> "garbage"]>> \o lines \o <<[raw |-> "blank"]>>
       ELSE lines

SiemLogs ==
    { SiemLog(nA, step, nB, k, lag, backwards, damaged) :
        nA \in BurstCounts, step \in Steps, nB \in OtherCounts, k \in {0, 1},
        lag \in Lags, backwards \in BOOLEAN, damaged \in BOOLEAN }

InitSiem ==
    /\ cfg = [rules |-> <<>>, thresholds |-> <<>>]
    /\ clock = StartTime
    /\ _WINDOW = <<>>
    /\ _LAST_ALERT = <<>>
    /\ _TS = <<>>
    /\ detections \in SiemLogs
    /\ IdleRest

NextSiem == SiemRun \/ SiemTick

SpecSiem == InitSiem /\ [][NextSiem]_vars

-----------------------------------------------------------------------------
(* The claims about the correlator. *)

\* The alerts appended by the step.
NewAlerts == SubSeq(alerts', Len(alerts) + 1, Len(alerts'))

\* The values of one field over the events of the log.
KeysOf(field) ==
    LET events == read_events(detections)
    IN { GetOrEmpty(events[i], field) : i \in DOMAIN events }

\* The times the run gives to the detections of one source.
SrcTimes(src) == TimesOf(read_events(detections), "src", src, clock)

\* At least burst_min of the times lie within `window` seconds of one of
\* them: in ascending order they hold burst_min entries whose first and last
\* differ by at most `window`.
HasBurst(times) ==
    \E a \in DOMAIN times :
        Cardinality({ b \in DOMAIN times :
                        /\ times[a] <= times[b]
                        /\ times[b] <= times[a] + window }) >= burst_min

FloodAlertsFor(log, src) ==
    { i \in DOMAIN log : /\ log[i].alert_id = "ALERT_ICMP_FLOOD"
                         /\ log[i].entities.src = src }

RepeatAlertsFor(log, r) ==
    { i \in DOMAIN log : /\ log[i].alert_id = "ALERT_REPEATED_RULE"
                         /\ log[i].entities.rule_id = r }

\* C4: in one run of the correlator, a source gets one ALERT_ICMP_FLOOD when
\* the times of its detections hold 30 or more within 60 seconds, and none
\* otherwise; the evidence count is at least 30 and at most the number of the
\* source's detections, so that exactly 30 detections one second apart give
\* evidence_count = 30, and 29 give no alert.
C4_BurstRule ==
    [][ siem_runs' = siem_runs + 1 =>
          \A src \in KeysOf("src") :
            LET times == SrcTimes(src)
                mine  == FloodAlertsFor(NewAlerts, src)
            IN /\ Cardinality(mine) = (IF HasBurst(times) THEN 1 ELSE 0)
               /\ \A i \in mine :
                    /\ NewAlerts[i].evidence_count >= burst_min
                    /\ NewAlerts[i].evidence_count <= Len(times) ]_vars

\* The log holds exactly 30 parseable detections of A, one second apart and
\* written latest first, and the run has given one alert with evidence 30.
C4_Witness ==
    /\ siem_runs = 1
    /\ LET events == read_events(detections)
           mine   == SelectSeq(events, LAMBDA e : e.src = "A")
       IN /\ Len(mine) = burst_min
          /\ \A i \in DOMAIN mine : "ts" \in DOMAIN mine[i]
          /\ \A i \in 1..(Len(mine) - 1) : mine[i].ts = mine[i + 1].ts + 1
    /\ \E i \in FloodAlertsFor(alerts, "A") : alerts[i].evidence_count = burst_min
    /\ Cardinality(FloodAlertsFor(alerts, "A")) = 1

\* The number of detections of a rule in the whole log.
RuleTotal(r) ==
    LET events == read_events(detections)
    IN Cardinality({ i \in DOMAIN events : GetOrEmpty(events[i], "rule_id") = r })

AlertKey(a) == <<a.alert_id, a.entities, a.evidence_count>>

\* C6: the detection log being unchanged, every run of the correlator emits
\* the same alerts again, so that after k runs the alert log holds k copies
\* of each alert.
C6_RerunReemits ==
    \A i \in DOMAIN alerts :
        Cardinality({ j \in DOMAIN alerts :
                        /\ alerts[j].alert_id = alerts[i].alert_id
                        /\ AlertKey(alerts[j]) = AlertKey(alerts[i]) }) = siem_runs

-----------------------------------------------------------------------------
(* Claims about the configuration and the detector routing (Spec) *)

\* The thresholds the detectors read.
RequiredThresholds ==
    {"arp_window_sec", "icmp_per_sec", "dns_label_max", "dns_name_max",
     "dns_entropy_threshold"}

\* C12: a configuration that lacks a required threshold is rejected at
\* startup: the packet loop is entered, and an event is handed to the
\* detectors, only under a configuration that holds every threshold.
C12_ThresholdsValidated ==
    (pc \in {"fetch", "check", "process"} \/ seen # <<>>)
    => RequiredThresholds \subseteq DOMAIN cfg.thresholds

-----------------------------------------------------------------------------
(* The mini SIEM run over a log with one line that is no detection          *)
(* (SpecSiemMixed): a text that is no JSON, an empty line, a JSON text that *)
(* is no object, or a JSON object without the fields of a detection, put    *)
(* before or after the detections.                                          *)

OddLines ==
    { [raw |-> "garbage"], [raw |-> "blank"], [raw |-> "scalar"],
      [src |-> "A"] }

MixedLogs ==
    { IF atFront THEN <<odd>> \o SiemLog(nA, 1, nB, 0, lag, FALSE, FALSE)
      ELSE SiemLog(nA, 1, nB, 0, lag, FALSE, FALSE) \o <<odd>> :
        nA \in BurstCounts, nB \in OtherCounts, lag \in Lags,
        odd \in OddLines, atFront \in BOOLEAN }

InitSiemMixed ==
    /\ cfg = [rules |-> <<>>, thresholds |-> <<>>]
    /\ clock = StartTime
    /\ _WINDOW = <<>>
    /\ _LAST_ALERT = <<>>
    /\ _TS = <<>>
    /\ detections \in MixedLogs
    /\ IdleRest

SpecSiemMixed == InitSiemMixed /\ [][NextSiem]_vars

\* A line that is a detection record: a JSON object with the fields the
\* correlator reads.
IsDetection(l) == {"ts", "src", "rule_id"} \subseteq DOMAIN l

\* C13: reading the detection history skips every malformed line and is
\* never fatal: a run over any mix of detection lines and other lines ends
\* without an exception and appends the alerts it would append if the log
\* held the detection lines alone.
C13_MalformedSkipped ==
    [][ siem_runs' = siem_runs + 1 =>
          /\ ~exc'
          /\ alerts' = correlate(alerts, SelectSeq(detections, IsDetection), clock)
      ]_vars

-----------------------------------------------------------------------------
(* The agent's detectors and the mini SIEM working on the same logs         *)
(* (SpecLogs): the detection log holds an earlier history, packets are      *)
(* handed to process_packet, and the mini SIEM is run at any point between. *)

LogHistories ==
    { SiemLog(nA, 1, repeat_min - burst_min, 0, 0, FALSE, FALSE) :
        nA \in {burst_min - 1, burst_min} }

InitLogs ==
    /\ cfg = [rules |-> AllRules, thresholds |-> AllThresholds]
    /\ clock = StartTime
    /\ _WINDOW = <<>>
    /\ _LAST_ALERT = <<>>
    /\ _TS = <<>>
    /\ detections \in LogHistories
    /\ IdleRest

\* One packet handed to process_packet, the call recorded in the history.
LogEvent ==
    /\ Len(seen) < MaxSeen
    /\ \E p \in AgentPackets :
          /\ process_packet(p)
          /\ seen' = Append(seen, <<clock, p>>)
    /\ UNCHANGED <<cfg, clock, alerts, STOP, mode, pc, reader, pkt, exc,
                   siem_runs>>

NextLogs == LogEvent \/ SiemRun \/ SiemTick

SpecLogs == InitLogs /\ [][NextLogs]_vars

IsPrefix(a, b) == Len(a) <= Len(b) /\ SubSeq(b, 1, Len(a)) = a

\* The places of the records a step has added to a log.
Added(old, new) == (Len(old) + 1)..Len(new)

\* C14: the detection log and the alert log are append-only: each step
\* leaves the earlier content of each log as a prefix of the later one, the
\* records a step adds are one per emission (one per detector that fired,
\* one per source or rule the correlator reported), a correlator run does
\* not write to the detection log and a detector call does not write to the
\* alert log.
C14_AppendOnly ==
    [][ /\ IsPrefix(detections, detections')
        /\ IsPrefix(alerts, alerts')
        /\ siem_runs' # siem_runs => detections' = detections
        /\ seen' # seen => alerts' = alerts
        /\ \A i, j \in Added(detections, detections') :
              i # j => detections'[i].rule_id # detections'[j].rule_id
        /\ \A i, j \in Added(alerts, alerts') :
              (i # j /\ alerts'[i].alert_id = alerts'[j].alert_id)
              => alerts'[i].entities # alerts'[j].entities ]_vars

\* Witness of C14: one packet made two detectors emit, the log of the
\* earlier history is still in front of their two records, and of two
\* correlator runs the one before them added nothing and the one after
\* them added two alerts.
C14_Witness ==
    /\ siem_runs = 2
    /\ \E d \in LogHistories :
          /\ IsPrefix(d, detections)
          /\ Len(detections) = Len(d) + 2
          /\ detections[Len(d) + 1].ts = detections[Len(d) + 2].ts
          /\ detections[Len(d) + 1].rule_id = "DNS_SUSPICIOUS"
          /\ detections[Len(d) + 2].rule_id = "ICMP_RATE"
    /\ Len(alerts) = 2
    /\ alerts[1].alert_id = "ALERT_ICMP_FLOOD"
    /\ alerts[2].alert_id = "ALERT_REPEATED_RULE"

-----------------------------------------------------------------------------
(* process_packet under every choice of the rule flags (SpecRules) *)

RuleNames == {"dns_suspicious", "icmp_flood", "arp_spoof", "http_keyword"}

\* The configurations: any rule on or off, or absent from the rules section
\* (which rules.get reads as off); the thresholds complete, or lacking
\* dns_label_max.
RuleCfgs ==
    { [rules |-> r, thresholds |-> t] :
        r \in [RuleNames -> BOOLEAN] \cup {[icmp_flood |-> TRUE]},
        t \in {AllThresholds, Without(AllThresholds, "dns_label_max")} }

InitRules ==
    /\ cfg \in RuleCfgs
    /\ clock = StartTime
    /\ FreshDetectors
    /\ IdleRest

RulesEvent == \E p \in AgentPackets : Observe(p)

NextRules == RulesEvent

SpecRules == InitRules /\ [][NextRules]_vars

\* The detections of one rule among those a step has added.
NewOf(rule) ==
    SelectSeq(SubSeq(detections', Len(detections) + 1, Len(detections')),
              LAMBDA d : d.rule_id = rule)

\* The detections a detector called alone on the state before the step adds.
AddedBy(st) == SubSeq(st.detections, Len(detections) + 1, Len(st.detections))

\* A process_packet call has done for every rule what the rule's detector
\* does by itself on that event when the flag is on, and nothing when off.
RuleFlagsStep ==
        seen' # seen =>
          LET p  == seen'[Len(seen')][2]
              n  == Normalize(p)
              dns  == IF RuleOn(cfg, "dns_suspicious")
                      THEN detect_dns(cfg, p, n.src, n.dst, clock, DetState)
                      ELSE DetState
              icmp == IF RuleOn(cfg, "icmp_flood")
                      THEN detect_icmp(cfg, p, n.src, n.dst, clock, DetState)
                      ELSE DetState
              arp  == IF RuleOn(cfg, "arp_spoof")
                      THEN detect_arp(cfg, p, n.src, n.dst, clock, DetState)
                      ELSE DetState
              http == IF RuleOn(cfg, "http_keyword")
                      THEN detect_http(cfg, p, n.src, n.dst, clock, DetState)
                      ELSE DetState
          IN /\ NewOf("DNS_SUSPICIOUS") = AddedBy(dns)
             /\ NewOf("ICMP_RATE") = AddedBy(icmp)
             /\ _WINDOW' = icmp.WINDOW
             /\ _LAST_ALERT' = icmp.LAST_ALERT
             /\ NewOf("ARP_MULTIMAC") = AddedBy(arp)
             /\ _TS' = arp.TS
             /\ NewOf("HTTP_KEYWORD") = AddedBy(http)

\* C15: in every process_packet call each detector is invoked exactly when
\* its rule flag is on: a rule that is off emits nothing and its window and
\* cooldown state stay as they were, and a rule that is on leaves the state
\* and emits the detections its detector gives on that event by itself,
\* whatever the flags of the other rules are.
C15_RuleFlags == [][RuleFlagsStep]_vars

-----------------------------------------------------------------------------
(* The DNS detector driven directly (SpecDns) *)

\* "aaaaaaaa.example.com"
PlainName == <<"a","a","a","a","a","a","a","a",".","e","x","a","m","p","l",
               "e",".","c","o","m">>

\* "abcdefgh": eight different characters, 3 bits exactly
EightName == <<"a","b","c","d","e","f","g","h">>

\* DNS packets: a query name, the name in qry_name_raw only, an empty name.
DnsPackets ==
    { [ip |-> [src |-> "A", dst |-> "D"], dns |-> [qry_name |-> PlainName]],
      [ip |-> [src |-> "A", dst |-> "D"], dns |-> [qry_name |-> RandomName]],
      [dns |-> [qry_name_raw |-> RandomName]],
      [dns |-> [qry_name |-> EightName]],
      [dns |-> [qry_name |-> <<>>]] }

\* Label maxima around the longest label of the names (8), name maxima
\* around their lengths (20, 21), entropy thresholds 3.0, 3.5 and 5.0 bits.
DnsCfgs ==
    { [rules |-> [dns_suspicious |-> TRUE],
       thresholds |-> [dns_label_max |-> l, dns_name_max |-> m,
                       dns_entropy_threshold |-> e]] :
        l \in {7, 8, 20}, m \in {19, 20, 50},
        e \in {3000000, 3500000, 5000000} }

InitDns ==
    /\ cfg \in DnsCfgs
    /\ clock = StartTime
    /\ FreshDetectors
    /\ IdleRest

DnsEvent == \E p \in DnsPackets : Observe(p)

NextDns == DnsEvent

SpecDns == InitDns /\ [][NextDns]_vars

\* The query name detect_dns reads from a packet.
QueryName(p) ==
    IF GetText(p.dns, "qry_name") # <<>> THEN GetText(p.dns, "qry_name")
    ELSE GetText(p.dns, "qry_name_raw")

\* Some stretch of the name without a dot is longer than max.
HasLongLabel(name, max) ==
    \E i, j \in DOMAIN name :
        /\ j - i + 1 > max
        /\ \A k \in i..j : name[k] # "."

\* C16: the DNS detector is stateless: a DNS event with a non-empty query
\* name adds exactly one DNS_SUSPICIOUS detection when a label is longer
\* than dns_label_max, or the name is longer than dns_name_max, or the
\* entropy of the whole name is at least dns_entropy_threshold, and adds
\* none otherwise, whatever events came before; an event with an empty name
\* adds none.  With 20, 50 and 3.5 bits "aaaaaaaa.example.com" gives none
\* and "x7q9z2f8.evil-cdn.net" gives one.
C16_DnsDecision ==
    [][ seen' # seen =>
          LET p    == seen'[Len(seen')][2]
              name == QueryName(p)
              t    == cfg.thresholds
              hit  == /\ name # <<>>
                      /\ \/ HasLongLabel(name, t.dns_label_max)
                         \/ Len(name) > t.dns_name_max
                         \/ _entropy(name) >= t.dns_entropy_threshold
          IN /\ Len(detections') = Len(detections) + (IF hit THEN 1 ELSE 0)
             /\ hit => /\ detections'[Len(detections')].rule_id = "DNS_SUSPICIOUS"
                       /\ detections'[Len(detections')].metadata.name = name
             /\ ((t.dns_label_max = 20 /\ t.dns_name_max = 50
                    /\ t.dns_entropy_threshold = 3500000)
                 => /\ name = PlainName => ~hit
                    /\ name = RandomName => hit)
             /\ UNCHANGED <<_WINDOW, _LAST_ALERT, _TS, ops>> ]_vars

\* Witness of C16: under 20, 50 and 3.5 bits the plain name came first and
\* added nothing, then the random name twice, which added a detection each
\* time.
C16_Witness ==
    /\ cfg.thresholds = [dns_label_max |-> 20, dns_name_max |-> 50,
                         dns_entropy_threshold |-> 3500000]
    /\ Len(seen) = 3
    /\ QueryName(seen[1][2]) = PlainName
    /\ QueryName(seen[2][2]) = RandomName
    /\ QueryName(seen[3][2]) = RandomName
    /\ Len(detections) = 2
    /\ \A i \in DOMAIN detections :
          /\ detections[i].rule_id = "DNS_SUSPICIOUS"
          /\ detections[i].metadata.name = RandomName
          /\ detections[i].metadata.entropy = 411

-----------------------------------------------------------------------------
(* Two pipelines in one process (SpecTwo): each calls process_packet with   *)
(* its own configuration; the detector modules, and so _WINDOW, _LAST_ALERT *)
(* and _TS, are the same for both.  Here cfg holds the two configurations,  *)
(* and an entry of seen is <<time, packet, pipeline, detections the call    *)
(* added>>.                                                                 *)

TwoCfgs ==
    << [rules |-> [icmp_flood |-> TRUE, arp_spoof |-> TRUE],
        thresholds |-> [icmp_per_sec |-> 1, arp_window_sec |-> 1]],
       [rules |-> [icmp_flood |-> TRUE, arp_spoof |-> TRUE],
        thresholds |-> [icmp_per_sec |-> 2, arp_window_sec |-> 1]] >>

TwoPackets ==
    { [ip |-> [src |-> "A", dst |-> "D"], icmp |-> <<>>],
      [arp |-> [spa |-> "A", sha |-> "m1", tpa |-> "T"]],
      [arp |-> [spa |-> "A", sha |-> "m2", tpa |-> "T"]] }

InitTwo ==
    /\ cfg = TwoCfgs
    /\ clock = StartTime
    /\ FreshDetectors
    /\ IdleRest

\* process_packet(cfg_k, pkt) called by pipeline k.
TwoEvent ==
    /\ Len(seen) < MaxSeen
    /\ \E k \in DOMAIN cfg : \E p \in TwoPackets :
         LET st == RunDetectors(cfg[k], p, clock, DetState)
         IN /\ _WINDOW' = st.WINDOW
            /\ _LAST_ALERT' = st.LAST_ALERT
            /\ _TS' = st.TS
            /\ detections' = st.detections
            /\ seen' = Append(seen, <<clock, p, k,
                                      SubSeq(st.detections, Len(detections) + 1,
                                             Len(st.detections))>>)
    /\ UNCHANGED <<cfg, clock, ops, alerts, STOP, mode, pc, reader, pkt, exc,
                   siem_runs>>

NextTwo == TwoEvent

SpecTwo == InitTwo /\ [][NextTwo]_vars

\* The detector state a pipeline would have after the first n calls of the
\* history if the calls of the other pipeline had not been made: its own
\* calls, replayed from fresh detectors.
RECURSIVE OwnState(_, _)
OwnState(k, n) ==
    IF n = 0
    THEN [WINDOW |-> <<>>, LAST_ALERT |-> <<>>, TS |-> <<>>,
          detections |-> <<>>, raised |-> None]
    ELSE IF seen[n][3] = k
         THEN RunDetectors(cfg[k], seen[n][2], seen[n][1], OwnState(k, n - 1))
         ELSE OwnState(k, n - 1)

\* C17: the detections a pipeline's call emits are those it would emit if
\* the detector state were its own: they do not depend on the events the
\* other pipeline has processed.
C17_InstancesIsolated ==
    \A n \in DOMAIN seen :
        LET k      == seen[n][3]
            before == OwnState(k, n - 1)
            after  == OwnState(k, n)
        IN seen[n][4] = SubSeq(after.detections, Len(before.detections) + 1,
                               Len(after.detections))

-----------------------------------------------------------------------------
(* Both windowed detectors under one configuration (SpecWindows): ICMP and  *)
(* ARP packets arrive as time passes; the clock never goes back.            *)

WindowPackets ==
    { [ip |-> [src |-> "A", dst |-> "D"], icmp |-> <<>>],
      [arp |-> [spa |-> "A", sha |-> "m1", tpa |-> "T"]],
      [arp |-> [spa |-> "A", sha |-> "m2", tpa |-> "T"]] }

InitWindows ==
    /\ cfg \in {[rules |-> [icmp_flood |-> TRUE, arp_spoof |-> TRUE],
                 thresholds |-> [icmp_per_sec |-> 1, arp_window_sec |-> w]] :
                   w \in {1, 2}}
    /\ clock = StartTime
    /\ FreshDetectors
    /\ IdleRest

WindowEvent == \E p \in WindowPackets : Observe(p)

NextWindows == ArpTick \/ WindowEvent

SpecWindows == InitWindows /\ [][NextWindows]_vars

\* The entries of a window that are at most h old, in the window's order.
NotOlder(dq, now, h) == SelectSeq(dq, LAMBDA e : now - e[1] <= h)

\* The timestamps of a window never decrease from front to back.
InArrivalOrder(dq) == \A i, j \in DOMAIN dq : i < j => dq[i][1] <= dq[j][1]

\* C18: after the eviction pass of detect_icmp (horizon 1.0 s) and of
\* detect_arp (horizon arp_window_sec) the detector's window holds, in
\* arrival order, exactly the entries -- the new one included -- that are at
\* most the horizon old: none older remains and none younger was evicted.
C18_WindowAfterEviction ==
    [][seen' # seen =>
         LET p == seen'[Len(seen')][2]
         IN /\ "icmp" \in DOMAIN p =>
                 /\ _WINDOW' = NotOlder(Append(_WINDOW, <<clock, Normalize(p).src>>),
                                        clock, horizon)
                 /\ \A i \in DOMAIN _WINDOW' : clock - _WINDOW'[i][1] <= horizon
                 /\ InArrivalOrder(_WINDOW')
            /\ "arp" \in DOMAIN p =>
                 /\ _TS' = NotOlder(Append(_TS, <<clock, p.arp.spa, p.arp.sha>>),
                                    clock, cfg.thresholds.arp_window_sec)
                 /\ \A i \in DOMAIN _TS' :
                       clock - _TS'[i][1] <= cfg.thresholds.arp_window_sec
                 /\ InArrivalOrder(_TS')]_vars

\* Witness of C18: three ARP packets were processed; the first is older than
\* arp_window_sec and has been evicted, the second is exactly arp_window_sec
\* old and is still in the window, followed by the third.
C18_Witness ==
    /\ Len(seen) = 3
    /\ \A n \in DOMAIN seen : "arp" \in DOMAIN seen[n][2]
    /\ seen[3][1] = clock
    /\ clock - seen[1][1] > cfg.thresholds.arp_window_sec
    /\ clock - seen[2][1] = cfg.thresholds.arp_window_sec
    /\ _TS = << <<seen[2][1], seen[2][2].arp.spa, seen[2][2].arp.sha>>,
                <<seen[3][1], seen[3][2].arp.spa, seen[3][2].arp.sha>> >>

-----------------------------------------------------------------------------
(* The ICMP detector with a time source that starts near its origin         *)
(* (SpecIcmpEarly): time.time() returns the seconds since the epoch of the  *)
(* system clock, which is a small number on a host whose clock starts at    *)
(* the epoch.                                                               *)

InitIcmpEarly ==
    /\ cfg \in {[rules |-> [icmp_flood |-> TRUE],
                 thresholds |-> [icmp_per_sec |-> t]] : t \in 1..MaxThreshold}
    /\ clock = 0
    /\ FreshDetectors
    /\ IdleRest

EarlyTick ==
    /\ clock < cooldown + 1
    /\ clock' = clock + 1
    /\ UNCHANGED <<cfg, _WINDOW, _LAST_ALERT, _TS, detections, ops, alerts,
                   STOP, mode, pc, reader, pkt, exc, siem_runs, seen>>

IcmpEarlyEvent == \E p \in IcmpPackets : Observe(p)

NextIcmpEarly == EarlyTick \/ IcmpEarlyEvent

SpecIcmpEarly == InitIcmpEarly /\ [][NextIcmpEarly]_vars

\* No ICMP_RATE detection of src is in the detection log.
NoneEmittedFor(log, src) == \A i \in DOMAIN log : ~IsIcmpRate(log[i], src)

\* An ICMP event of a host that puts the host over the threshold while no
\* detection of that host exists is answered by a detection of that event.
FirstBurstStep ==
    seen' # seen =>
      LET p   == seen'[Len(seen')][2]
          src == Normalize(p).src
      IN ("icmp" \in DOMAIN p
            /\ src \in IcmpHosts
            /\ CountSrc(_WINDOW', src) > cfg.thresholds.icmp_per_sec
            /\ NoneEmittedFor(detections, src))
         => /\ Len(detections') = Len(detections) + 1
            /\ IsIcmpRate(detections'[Len(detections')], src)
            /\ detections'[Len(detections')].ts = clock

\* C19: whatever the current timestamp is, timestamps less than 5 seconds
\* after the origin of the time source included, an ICMP event that makes
\* its source's count in the window exceed icmp_per_sec while no ICMP_RATE
\* detection has been emitted for that source makes detect_icmp emit one.
C19_FirstBurstDetected == [][FirstBurstStep]_vars

-----------------------------------------------------------------------------
(* The ICMP detector with its calls recorded (SpecCooldown); with           *)
(* icmp_per_sec = 0 every ICMP event is over the threshold.                 *)

InitCooldown ==
    /\ cfg \in {[rules |-> [icmp_flood |-> TRUE],
                 thresholds |-> [icmp_per_sec |-> t]] : t \in 0..MaxThreshold}
    /\ clock = StartTime
    /\ FreshDetectors
    /\ IdleRest

CooldownEvent == \E p \in IcmpPackets : Observe(p)

NextCooldown == Tick \/ CooldownEvent

SpecCooldown == InitCooldown /\ [][NextCooldown]_vars

\* The positions of the ICMP_RATE detections of src in the detection log.
RateIdx(src) == {i \in DOMAIN detections : IsIcmpRate(detections[i], src)}

\* The cooldown entry of a source exists exactly when an ICMP_RATE detection
\* of it was emitted, and holds the time of the latest one.
CooldownMatchesLog ==
    /\ DOMAIN _LAST_ALERT \subseteq IcmpSrcs
    /\ \A src \in IcmpSrcs :
         /\ (src \in DOMAIN _LAST_ALERT) <=> (RateIdx(src) # {})
         /\ src \in DOMAIN _LAST_ALERT =>
              _LAST_ALERT[src] =
                detections[CHOOSE i \in RateIdx(src) :
                             \A k \in RateIdx(src) : k <= i].ts

\* An over-threshold ICMP event inside the cooldown of its source updates
\* the window and nothing else; no step removes a cooldown entry.
SuppressedStep ==
    /\ DOMAIN _LAST_ALERT \subseteq DOMAIN _LAST_ALERT'
    /\ seen' # seen =>
         LET p   == seen'[Len(seen')][2]
             src == Normalize(p).src
         IN ("icmp" \in DOMAIN p
               /\ src \in DOMAIN _LAST_ALERT
               /\ clock - _LAST_ALERT[src] < cooldown
               /\ CountSrc(_WINDOW', src) > cfg.thresholds.icmp_per_sec)
            => /\ _WINDOW' = NotOlder(Append(_WINDOW, <<clock, src>>),
                                      clock, horizon)
               /\ detections' = detections
               /\ _LAST_ALERT' = _LAST_ALERT

\* C20: an over-threshold ICMP event inside the cooldown of its source is
\* appended to the window (stale entries evicted) but emits nothing and
\* leaves the cooldown state unchanged; in every reachable state a source
\* has a cooldown entry exactly when an ICMP_RATE detection was emitted for
\* it, the entry is the timestamp of the latest such detection, and entries
\* are never removed.
C20_CooldownState == [](CooldownMatchesLog) /\ [][SuppressedStep]_vars

\* Witness of C20: host A was detected, an over-threshold event of A inside
\* the cooldown was suppressed, and A was detected again once the cooldown
\* was over: the cooldown entry is the time of the second detection.
C20_Witness ==
    /\ Len(seen) = 3
    /\ \A n \in DOMAIN seen : Normalize(seen[n][2]).src = "A"
    /\ seen[2][1] - seen[1][1] < cooldown
    /\ Len(detections) = 2
    /\ detections[1].ts = seen[1][1]
    /\ detections[2].ts = seen[3][1]
    /\ "A" \in DOMAIN _LAST_ALERT
    /\ _LAST_ALERT["A"] = seen[3][1]
    /\ Len(_WINDOW) >= 1

-----------------------------------------------------------------------------
(* Claims about the ARP detector's emissions (SpecArp) *)

\* The MACs that the window, after the event's entry is appended and the
\* stale entries are gone, holds for the IP.
MacsHeld(ts, now, h, ip, mac) ==
    LET w == NotOlder(Append(ts, <<now, ip, mac>>), now, h)
    IN {w[i][3] : i \in {k \in DOMAIN w : w[k][2] = ip}}

\* One complete ARP event: one ARP_MULTIMAC detection of its IP listing
\* exactly the MACs held for the IP when they are two or more, none
\* otherwise.
ArpEmitStep ==
    seen' # seen =>
      LET p == seen'[Len(seen')][2]
      IN ("arp" \in DOMAIN p /\ ~ArpIncomplete(p)) =>
           LET macs == MacsHeld(_TS, clock, cfg.thresholds.arp_window_sec,
                                p.arp.spa, p.arp.sha)
           IN IF Cardinality(macs) >= 2
              THEN /\ Len(detections') = Len(detections) + 1
                   /\ SubSeq(detections', 1, Len(detections)) = detections
                   /\ LET d == detections'[Len(detections')]
                      IN /\ d.rule_id = "ARP_MULTIMAC"
                         /\ d.src = p.arp.spa
                         /\ d.ts = clock
                         /\ Elems(d.metadata.macs) = macs
                         /\ Len(d.metadata.macs) = Cardinality(macs)
              ELSE detections' = detections

\* C21: the ARP detector has no cooldown: every ARP event with sender IP and
\* sender MAC present emits exactly one ARP_MULTIMAC detection if, after the
\* append and the eviction, the window holds two or more distinct MACs for
\* the event's IP, and none otherwise, whatever was emitted before; and
\* metadata.macs is exactly the set of MACs the window holds for that IP.
C21_ArpNoCooldown == [][ArpEmitStep]_vars

\* Witness of C21: three events of one IP in the same second with the MACs
\* m1, m2, m1; the second and the third each emitted a detection listing
\* both MACs, the third right after the second.
C21_Witness ==
    /\ Len(seen) = 3
    /\ \A n \in DOMAIN seen : seen[n][2].arp.spa = "A" /\ seen[n][1] = clock
    /\ seen[1][2].arp.sha = "m1" /\ seen[2][2].arp.sha = "m2"
    /\ seen[3][2].arp.sha = "m1"
    /\ Len(detections) = 2
    /\ \A k \in DOMAIN detections :
          /\ detections[k].rule_id = "ARP_MULTIMAC"
          /\ detections[k].src = "A"
          /\ detections[k].metadata.macs = <<"m1", "m2">>

-----------------------------------------------------------------------------
(* The ICMP detector with two hosts sharing the window (SpecIcmpTwo) *)

TwoHosts == {"A", "B"}

IcmpTwoPackets ==
    {[ip |-> [src |-> s, dst |-> "D"], icmp |-> <<>>] : s \in TwoHosts}

IcmpTwoEvent == \E p \in IcmpTwoPackets : Observe(p)

NextIcmpTwo == Tick \/ IcmpTwoEvent

SpecIcmpTwo == InitCooldown /\ [][NextIcmpTwo]_vars

\* The detector state after the first n calls of the history had only the
\* events of src been processed: they are replayed, at their times, from
\* fresh detectors.
RECURSIVE AloneState(_, _)
AloneState(src, n) ==
    IF n = 0
    THEN [WINDOW |-> <<>>, LAST_ALERT |-> <<>>, TS |-> <<>>,
          detections |-> <<>>, raised |-> None]
    ELSE IF Normalize(seen[n][2]).src = src
         THEN RunDetectors(cfg, seen[n][2], seen[n][1], AloneState(src, n - 1))
         ELSE AloneState(src, n - 1)

\* The ICMP_RATE detections of src in a detection log, in order.
RateOf(log, src) == SelectSeq(log, LAMBDA d : IsIcmpRate(d, src))

\* C22: ICMP rate detection is independent per source although the window
\* is shared: the ICMP_RATE detections emitted for a source are those that
\* its own events would produce alone, whatever ICMP events of other
\* sources are interleaved with them.
C22_PerSourceIndependent ==
    \A src \in TwoHosts :
        RateOf(detections, src)
          = RateOf(AloneState(src, Len(seen)).detections, src)

\* Witness of C22: events of A, of B and of A again, all within A's
\* cooldown; A's first event and B's event were each detected (B's inside
\* the cooldown of A), and A's second event was suppressed.
C22_Witness ==
    /\ Len(seen) = 3
    /\ Normalize(seen[1][2]).src = "A"
    /\ Normalize(seen[2][2]).src = "B"
    /\ Normalize(seen[3][2]).src = "A"
    /\ Len(detections) = 2
    /\ IsIcmpRate(detections[1], "A") /\ detections[1].ts = seen[1][1]
    /\ IsIcmpRate(detections[2], "B") /\ detections[2].ts = seen[2][1]
    /\ Len(_WINDOW) >= 2

-----------------------------------------------------------------------------
(* Further claims about the correlator (SpecSiem) *)

\* C23: every ALERT_ICMP_FLOOD alert has evidence_count exactly 30, however
\* many detections of the source lie within the same 60 seconds: the scan of
\* a source grows its span by at most one entry per step and stops at the
\* first step where the span holds 30.
C23_EvidenceIsThirty ==
    \A i \in DOMAIN alerts :
        alerts[i].alert_id = "ALERT_ICMP_FLOOD"
          => alerts[i].evidence_count = burst_min

\* Witness of C23: the log holds more than 30 detections of A, all with a
\* ts and all within 60 seconds, and the run has given A an alert whose
\* evidence count is 30.
C23_Witness ==
    /\ siem_runs = 1
    /\ LET events == read_events(detections)
           mine   == SelectSeq(events, LAMBDA e : e.src = "A")
       IN /\ Len(mine) > burst_min
          /\ \A k \in DOMAIN mine : "ts" \in DOMAIN mine[k]
          /\ \A k, l \in DOMAIN mine : mine[k].ts - mine[l].ts <= window
    /\ \E i \in FloodAlertsFor(alerts, "A") : alerts[i].evidence_count = burst_min

-----------------------------------------------------------------------------
(* The mini SIEM run over a log of incomplete detections (SpecSiemBare):    *)
(* nA detections of source A with neither ts nor rule_id (a ts that does    *)
(* not parse is a missing one), nE detections with neither ts nor src nor   *)
(* rule_id, and nB complete detections of source A or B, one second apart;  *)
(* written in this order or in the opposite one.                            *)

BareCounts ==
    {0, repeat_min - burst_min - 1, repeat_min - burst_min, burst_min}

BareLog(nA, nE, nB, srcB, backwards) ==
    LET partA == [i \in 1..nA |-> [src |-> "A", dst |-> "T", proto |-> "ICMP",
                                   severity |-> "high"]]
        partE == [i \in 1..nE |-> [dst |-> "T", proto |-> "OTHER",
                                   severity |-> "low"]]
        partB == [i \in 1..nB |-> [ts |-> StartTime - i, src |-> srcB,
                                   dst |-> "T", proto |-> "ICMP",
                                   rule_id |-> "ICMP_RATE", severity |-> "high"]]
        body  == partA \o partE \o partB
    IN IF backwards THEN Reverse(body) ELSE body

BareLogs ==
    { BareLog(nA, nE, nB, srcB, backwards) :
        nA \in BurstCounts, nE \in BareCounts, nB \in {1, 2},
        srcB \in {"A", "B"}, backwards \in BOOLEAN }

InitSiemBare ==
    /\ cfg = [rules |-> <<>>, thresholds |-> <<>>]
    /\ clock = StartTime
    /\ _WINDOW = <<>>
    /\ _LAST_ALERT = <<>>
    /\ _TS = <<>>
    /\ detections \in BareLogs
    /\ IdleRest

SpecSiemBare == InitSiemBare /\ [][NextSiem]_vars

\* The detections of the log whose field is the value, a detection without
\* the field standing under the empty string.
Under(field, value) ==
    { i \in DOMAIN detections :
        (IF field \in DOMAIN detections[i] THEN detections[i][field] ELSE "")
          = value }

\* The detections of the log without a ts.
Timeless == { i \in DOMAIN detections : "ts" \notin DOMAIN detections[i] }

\* The detections of the log whose ts is at most `window` before the run.
Recent ==
    { i \in DOMAIN detections :
        /\ "ts" \in DOMAIN detections[i]
        /\ detections[i].ts <= clock
        /\ clock - detections[i].ts <= window }

\* One run over the log: a source, the empty one included, with 30 or more
\* detections that have no ts or a ts of the last 60 seconds gets its burst
\* alert (those without a ts stand at the time of the run), and a rule,
\* the empty one included, gets the repetition alert on the count of all
\* its detections, with or without a ts.
BareRunStep ==
    siem_runs' = siem_runs + 1 =>
      /\ \A src \in {"A", "B", ""} :
           Cardinality(Under("src", src) \cap (Timeless \cup Recent)) >= burst_min
             => /\ Cardinality(FloodAlertsFor(NewAlerts, src)) = 1
                /\ \A i \in FloodAlertsFor(NewAlerts, src) :
                      NewAlerts[i].ts = clock
      /\ \A r \in {"ICMP_RATE", ""} :
           LET n    == Cardinality(Under("rule_id", r))
               mine == RepeatAlertsFor(NewAlerts, r)
           IN /\ Cardinality(mine) = (IF n >= repeat_min THEN 1 ELSE 0)
              /\ \A i \in mine : NewAlerts[i].evidence_count = n

\* C24: correlate does not skip a detection whose ts is missing or does not
\* parse, it gives it the time of the run; a detection without src or
\* rule_id is grouped under the empty source or rule; so 30 or more such
\* detections of one source produce an ALERT_ICMP_FLOOD alert, and they
\* count toward the repetition rule.
C24_TimelessCounted == [][BareRunStep]_vars

\* Witness of C24: the log holds 30 detections of A and 30 without a src,
\* none of them with a ts or a rule_id; one run has given a burst alert to
\* A and to the empty source, and a repetition alert of evidence 60 to the
\* empty rule.
C24_Witness ==
    /\ siem_runs = 1
    /\ Cardinality(Under("src", "A") \cap Timeless) = burst_min
    /\ Cardinality(Under("src", "") \cap Timeless) = burst_min
    /\ Under("rule_id", "") = Timeless
    /\ Cardinality(FloodAlertsFor(alerts, "A")) = 1
    /\ Cardinality(FloodAlertsFor(alerts, "")) = 1
    /\ \E i \in RepeatAlertsFor(alerts, "") :
          alerts[i].evidence_count = 2 * burst_min

=============================================================================
